---------------------------- MODULE Spec2Model ----------------------------
(***************************************************************************)
(* A model of the AMCP client of src/amcp.go: the reply parser             *)
(* (Client.receive, parseCodeLine) reading from a connection through a     *)
(* bufio.Reader that is created anew by every call, the command encoder    *)
(* formatCmd, and Client.Do with Client.send, run by several callers       *)
(* under the request and response turns of the textproto Pipeline.         *)
(*                                                                         *)
(* Bytes are their ASCII numbers; a byte string is a sequence of bytes.    *)
(***************************************************************************)
EXTENDS Integers, Sequences, FiniteSets, TLC

\* ------------------------------------------------------------------ bytes

\* crnl = []byte{'\r', '\n'}
CR == 13
LF == 10
crnl == <<CR, LF>>
\* the separator parseCodeLine requires at line[3]
SP == 32

\* Return codes that decide the shape of the reply.
ReturnOkMulti == 200
ReturnOkData == 201

\* "200 OK", "201 OK", "202 OK", "202 " (an empty message), "a", "b"
S200OK == <<50, 48, 48, 32, 79, 75>>
S201OK == <<50, 48, 49, 32, 79, 75>>
S202OK == <<50, 48, 50, 32, 79, 75>>
S202 == <<50, 48, 50, 32>>
TxtOK == <<79, 75>>
TxtA == <<97>>
TxtB == <<98>>

\* ----------------------------------------------------------------- bounds

\* Lines of a stream whose lines mix CRLF and bare LF terminators.
MaxLines == 3
\* Lines of a stream whose lines all end with CRLF.
MaxCrlfLines == 4
\* Size of an argument list given to formatCmd: one for each argument and one
\* for each byte of a string argument.
MaxSize == 4
\* Goroutines that call Do, once each, on the one Client.
MaxCallers == 3

\* ------------------------------------------------------- the server's side

Terms == {crnl, <<LF>>}
Contents == {S200OK, S201OK, S202OK, S202, <<>>, TxtA}
CrlfContents == {S200OK, S201OK, <<>>, TxtA, TxtB}

MixedLines == {c \o t : c \in Contents, t \in Terms}
CrlfLines == {c \o crnl : c \in CrlfContents}

RECURSIVE Flatten(_)
Flatten(ls) == IF ls = <<>> THEN <<>> ELSE Head(ls) \o Flatten(Tail(ls))

SeqsUpTo(S, n) == UNION {[1..m -> S] : m \in 0..n}

\* Everything the server may have put on the connection.
Streams ==
    {Flatten(ls) : ls \in SeqsUpTo(MixedLines, MaxLines)}
        \cup {Flatten(ls) : ls \in SeqsUpTo(CrlfLines, MaxCrlfLines)}

\* ------------------------------------------------------------ pure helpers

\* Index of the first LF of s, 0 when there is none (bufio.Reader.ReadSlice
\* searches its buffer for the delimiter).
IndexLF(s) ==
    IF \E i \in 1..Len(s) : s[i] = LF
    THEN CHOOSE i \in 1..Len(s) : s[i] = LF /\ \A j \in 1..(i - 1) : s[j] # LF
    ELSE 0

HasLF(s) == IndexLF(s) # 0

IsDigit(c) == c \in 48..57

RECURSIVE DecVal(_)
DecVal(s) == IF s = <<>> THEN 0 ELSE 10 * DecVal(SubSeq(s, 1, Len(s) - 1)) + (s[Len(s)] - 48)

\* strconv.Atoi: an optional sign, then one or more decimal digits.
Atoi(s) ==
    LET signed == Len(s) > 0 /\ s[1] \in {43, 45}
        digits == IF signed THEN Tail(s) ELSE s
    IN  IF Len(digits) = 0 \/ \E i \in 1..Len(digits) : ~IsDigit(digits[i])
        THEN [ok |-> FALSE, n |-> 0]
        ELSE [ok |-> TRUE,
              n |-> IF signed /\ s[1] = 45 THEN 0 - DecVal(digits) ELSE DecVal(digits)]

\* parseCodeLine(line): code, msg, err.
parseCodeLine(l) ==
    IF Len(l) < 4 \/ l[4] # SP
    THEN [code |-> 0, msg |-> <<>>, err |-> "short response"]
    ELSE LET a == Atoi(SubSeq(l, 1, 3))
         IN  IF ~a.ok \/ a.n < 100
             THEN [code |-> a.n, msg |-> <<>>, err |-> "invalid response"]
             ELSE [code |-> a.n, msg |-> SubSeq(l, 5, Len(l)), err |-> "nil"]

\* Mutant of IsMultiLine: only 200 is taken to have more lines.
IsMultiLineOnly200(c) == c = ReturnOkMulti

\* if code == ReturnOkMulti || code == ReturnOkData: the reply has more lines.
IsMultiLine(c) == c = ReturnOkMulti \/ c = ReturnOkData

\* Mutant of InitialList: the accumulator starts empty.
InitialListEmpty(msg) == <<>>

\* v := []string{data.(string)}
InitialList(msg) == <<msg>>

\* ------------------------------------------------------------ formatCmd

\* An argument of formatCmd (an interface{} value): an int, a string (the
\* bytes it holds, which need not be valid UTF-8), or a value of a type the
\* switch has no case for (a bool, a nil, ...).
IntArg(i) == [kind |-> "int", n |-> i, s |-> <<>>]
StringArg(t) == [kind |-> "string", n |-> 0, s |-> t]
OtherArg == [kind |-> "other", n |-> 0, s |-> <<>>]

\* strconv.FormatInt(int64(v), 10)
RECURSIVE Digits(_)
Digits(n) == IF n < 10 THEN <<48 + n>> ELSE Digits(n \div 10) \o <<48 + (n % 10)>>

FormatInt(n) == IF n < 0 THEN <<45>> \o Digits(0 - n) ELSE Digits(n)

\* utf8.RuneError, U+FFFD: the rune a range over a string yields for a byte
\* that begins no valid UTF-8 sequence.
RuneError == 65533

\* The runes a range over the string v yields, here and inside
\* strings.IndexFunc: a byte below 0x80 is its own rune, a lead byte
\* 0xC2..0xDF with a continuation byte 0x80..0xBF is a rune of two bytes, and
\* any other byte is RuneError, of width one. (No string of the model holds
\* a lead byte of the three- and four-byte forms, 0xE0..0xF4.)
RECURSIVE RangeRunes(_)
RangeRunes(t) ==
    IF t = <<>> THEN <<>>
    ELSE IF t[1] < 128 THEN <<t[1]>> \o RangeRunes(Tail(t))
    ELSE IF t[1] \in 194..223 /\ Len(t) >= 2 /\ t[2] \in 128..191
         THEN <<(t[1] - 192) * 64 + (t[2] - 128)>> \o RangeRunes(Tail(Tail(t)))
    ELSE <<RuneError>> \o RangeRunes(Tail(t))

\* unicode.IsSpace
IsSpace(r) ==
    r \in {9, 10, 11, 12, 13, 32, 133, 160, 5760, 8232, 8233, 8239, 8287, 12288}
        \cup (8192..8202)

\* strings.Builder.WriteRune: the UTF-8 encoding of r, for r up to U+FFFF.
WriteRune(r) ==
    IF r < 128 THEN <<r>>
    ELSE IF r < 2048 THEN <<192 + (r \div 64), 128 + (r % 64)>>
    ELSE <<224 + (r \div 4096), 128 + ((r \div 64) % 64), 128 + (r % 64)>>

\* Mutant of EscapeRune: a newline is written as it is.
EscapeRuneRawNewline(r) ==
    CASE r = 34 -> <<92, 34>>
      [] r = 92 -> <<92, 92>>
      [] OTHER -> WriteRune(r)

\* The switch over one character of a string argument.
EscapeRune(r) ==
    CASE r = 34 -> <<92, 34>>
      [] r = 92 -> <<92, 92>>
      [] r = 10 -> <<92, 110>>
      [] OTHER -> WriteRune(r)

\* for _, r := range v { ... }
RECURSIVE EscapeRunes(_)
EscapeRunes(rs) == IF rs = <<>> THEN <<>> ELSE EscapeRune(Head(rs)) \o EscapeRunes(Tail(rs))

\* Mutant of NeedsQuote: only the ASCII space asks for quotes.
NeedsQuoteOnlySP(t) == \E i \in 1..Len(t) : t[i] = SP

\* quote := strings.IndexFunc(v, unicode.IsSpace) != -1
NeedsQuote(t) == \E i \in 1..Len(RangeRunes(t)) : IsSpace(RangeRunes(t)[i])

\* case string: the opening quote, the characters, the closing quote.
EncodeString(t) ==
    (IF NeedsQuote(t) THEN <<34>> ELSE <<>>)
        \o EscapeRunes(RangeRunes(t))
        \o (IF NeedsQuote(t) THEN <<34>> ELSE <<>>)

\* switch v := arg.(type): a type without a case writes nothing.
EncodeValue(a) ==
    CASE a.kind = "int" -> FormatInt(a.n)
      [] a.kind = "string" -> EncodeString(a.s)
      [] OTHER -> <<>>

\* Mutant of EncodeArg: the space is written after the argument.
EncodeArgSpaceAfter(a) == EncodeValue(a) \o <<SP>>

\* One turn of the loop over args: b.WriteByte(' '), then the switch.
EncodeArg(a) == <<SP>> \o EncodeValue(a)

RECURSIVE EncodeArgs(_)
EncodeArgs(as) == IF as = <<>> THEN <<>> ELSE EncodeArg(Head(as)) \o EncodeArgs(Tail(as))

\* formatCmd(cmd, args...): the bytes of the string it returns.
formatCmd(c, as) == c \o EncodeArgs(as) \o crnl

\* The commands and arguments formatCmd is given: names "X" and "GO"; the
\* ints -12, 0 and 105; strings over the bytes n, space, quote, backslash,
\* newline, carriage return, 0xC2 and 0xA0 (together U+00A0, a space outside
\* ASCII; each alone no valid UTF-8) and 0xFF (in no valid UTF-8).
Names == {<<88>>, <<71, 79>>}
Ints == {0 - 12, 0, 105}
Bytes == {110, 32, 34, 92, 10, 13, 194, 160, 255}

Cost(a) == 1 + Len(a.s)

ArgsOfCost(k) ==
    {StringArg(t) : t \in [1..(k - 1) -> Bytes]}
        \cup (IF k = 1 THEN {IntArg(i) : i \in Ints} \cup {OtherArg} ELSE {})

RECURSIVE ArgLists(_)
ArgLists(n) ==
    {<<>>} \cup UNION {{<<a>> \o r : a \in ArgsOfCost(k), r \in ArgLists(n - k)} : k \in 1..n}

\* The dynamic value receive returns as data: a string or a []string.
Single(s) == [kind |-> "Single", text |-> s, list |-> <<>>]
List(l) == [kind |-> "List", text |-> <<>>, list |-> l]

\* ------------------------------------------------------------------ state

VARIABLES
    conn,   \* bytes the connection holds or will deliver, not yet read from it
    buf,    \* unread bytes in the buffer of the bufio.Reader of the current call
    pc,     \* where receive is: idle, status, body, done, failed, panic
    code,   \* returned code
    data,   \* returned data
    err,    \* returned error
    line,   \* receive's local variable line
    v,      \* receive's accumulator v
    got,    \* history: the slices ReadSlice returned to this call, in order
    cmd,    \* formatCmd's parameter cmd
    args,   \* formatCmd's parameter args
    out,    \* the string formatCmd returned, empty before it has
    do,     \* per caller of Do: where it is, its request id, what Do returned
    text,   \* c.text: the Pipeline's counters and the bufio.Writer W
    server  \* the bytes the server received and how many commands it answered

vars == <<conn, buf, pc, code, data, err, line, v, got>>
fvars == <<cmd, args, out>>
dvars == <<do, text, server>>

\* No call of formatCmd.
FormatIdle == cmd = <<>> /\ args = <<>> /\ out = <<>>

Callers == 1..MaxCallers

\* No caller has entered Do; textproto.NewConn: the Pipeline's counters at
\* zero, the Writer empty and without error.
DoIdle ==
    /\ do = [c \in Callers |->
                [pc |-> "idle", id |-> 0, code |-> 0, data |-> Single(<<>>), err |-> "nil"]]
    /\ text = [next |-> 0, request |-> 0, response |-> 0, W |-> <<>>, Werr |-> FALSE]
    /\ server = [received |-> <<>>, answered |-> 0]

Init ==
    /\ FormatIdle
    /\ DoIdle
    /\ conn \in Streams
    /\ buf = <<>>
    /\ pc = "idle"
    /\ code = 0
    /\ data = Single(<<>>)
    /\ err = "nil"
    /\ line = <<>>
    /\ v = <<>>
    /\ got = <<>>

\* ---------------------------------------------------------------- receive

\* receive is entered: r := bufio.NewReader(c.conn), a reader with an empty
\* buffer of its own; what an earlier call's reader still held is gone.
\* The caller calls again after a reply; after an error it gives the
\* connection up, and a panic ends the program.
Call ==
    /\ pc \in {"idle", "done"}
    /\ pc' = "status"
    /\ buf' = <<>>
    /\ code' = 0
    /\ data' = Single(<<>>)
    /\ err' = "nil"
    /\ line' = <<>>
    /\ v' = <<>>
    /\ got' = <<>>
    /\ UNCHANGED conn

\* Inside ReadSlice, the buffer holds no LF: one Read of the connection moves
\* the bytes it returns, at least one and at most all there are, into the buffer
\* (whose 4096 bytes no stream modelled here fills).
Fill ==
    /\ pc \in {"status", "body"}
    /\ ~HasLF(buf)
    /\ \E k \in 1..Len(conn) :
        /\ buf' = buf \o SubSeq(conn, 1, k)
        /\ conn' = SubSeq(conn, k + 1, Len(conn))
    /\ UNCHANGED <<pc, code, data, err, line, v, got>>

\* Mutant of ReadFail: a failure in the loop returns what was accumulated.
ReadFailPartialList ==
    /\ pc \in {"status", "body"}
    /\ ~HasLF(buf)
    /\ pc' = "failed"
    /\ code' = code
    /\ data' = IF pc = "body" THEN List(v) ELSE Single(<<>>)
    /\ err' = "read error"
    /\ UNCHANGED <<conn, buf, line, v, got>>

\* Inside ReadSlice, the buffer holds no LF and the Read fails (I/O error,
\* deadline, end of stream): return 0, "", err.
ReadFail ==
    /\ pc \in {"status", "body"}
    /\ ~HasLF(buf)
    /\ pc' = "failed"
    /\ code' = 0
    /\ data' = Single(<<>>)
    /\ err' = "read error"
    /\ UNCHANGED <<conn, buf, line, v, got>>

\* The first ReadSlice returns b; line := string(b[:len(b)-2]); parseCodeLine.
ReadStatus ==
    /\ pc = "status"
    /\ HasLF(buf)
    /\ LET i == IndexLF(buf)
           b == SubSeq(buf, 1, i)
       IN  /\ buf' = SubSeq(buf, i + 1, Len(buf))
           /\ got' = Append(got, b)
           /\ IF Len(b) < 2
              THEN \* b[:len(b)-2] with len(b) = 1: slice bounds out of range
                   /\ pc' = "panic"
                   /\ UNCHANGED <<code, data, err, line, v>>
              ELSE LET l == SubSeq(b, 1, Len(b) - 2)
                       p == parseCodeLine(l)
                   IN  /\ line' = l
                       /\ IF p.err # "nil"
                          THEN /\ pc' = "failed"
                               /\ code' = 0
                               /\ data' = Single(<<>>)
                               /\ err' = p.err
                               /\ v' = v
                          ELSE IF IsMultiLine(p.code)
                          THEN /\ pc' = "body"
                               /\ code' = p.code
                               /\ data' = Single(p.msg)
                               /\ err' = "nil"
                               /\ v' = InitialList(p.msg)
                          ELSE /\ pc' = "done"
                               /\ code' = p.code
                               /\ data' = Single(p.msg)
                               /\ err' = "nil"
                               /\ v' = v
    /\ UNCHANGED conn

\* One turn of the loop: ReadSlice returns b, the line is cut and appended,
\* and the loop ends or goes on.
ReadBody ==
    /\ pc = "body"
    /\ HasLF(buf)
    /\ LET i == IndexLF(buf)
           b == SubSeq(buf, 1, i)
       IN  /\ buf' = SubSeq(buf, i + 1, Len(buf))
           /\ got' = Append(got, b)
           /\ IF Len(b) < 2
              THEN \* b[len(b)-2:] with len(b) = 1: slice bounds out of range
                   /\ pc' = "panic"
                   /\ UNCHANGED <<code, data, err, line, v>>
              ELSE LET endsWithCRNL == Len(b) > 0 /\ SubSeq(b, Len(b) - 1, Len(b)) = crnl
                       l == IF endsWithCRNL THEN SubSeq(b, 1, Len(b) - 2)
                            ELSE IF b[Len(b)] = LF THEN SubSeq(b, 1, Len(b) - 1)
                            ELSE line
                       w == Append(v, l)
                       brk == \/ code = ReturnOkData /\ endsWithCRNL
                              \/ code = ReturnOkMulti /\ Len(b) = 2 /\ endsWithCRNL
                   IN  /\ line' = l
                       /\ v' = w
                       /\ pc' = IF brk THEN "done" ELSE "body"
                       /\ data' = IF brk THEN List(w) ELSE data
                       /\ UNCHANGED <<code, err>>
    /\ UNCHANGED conn

\* A step of receive, called by itself: no formatCmd and no Do is under way.
Next ==
    \/ Call /\ UNCHANGED <<fvars, dvars>>
    \/ Fill /\ UNCHANGED <<fvars, dvars>>
    \/ ReadFail /\ UNCHANGED <<fvars, dvars>>
    \/ ReadStatus /\ UNCHANGED <<fvars, dvars>>
    \/ ReadBody /\ UNCHANGED <<fvars, dvars>>

Spec == Init /\ [][Next]_<<vars, fvars, dvars>>

\* The server's first line is any of: "", "20", "2000", "200 ", "2x0 A",
\* "12  A", "+12 A", "-12 A", "099 A", "100 A", "999 A", "200 A", "201 A";
\* it ends with CRLF or a bare LF, and nothing, "a" CRLF or an empty line
\* follows it.
StatusContents ==
    {<<>>, <<50, 48>>, <<50, 48, 48, 48>>, <<50, 48, 48, 32>>,
     <<50, 120, 48, 32, 65>>, <<49, 50, 32, 32, 65>>,
     <<43, 49, 50, 32, 65>>, <<45, 49, 50, 32, 65>>,
     <<48, 57, 57, 32, 65>>, <<49, 48, 48, 32, 65>>, <<57, 57, 57, 32, 65>>,
     <<50, 48, 48, 32, 65>>, <<50, 48, 49, 32, 65>>}

StatusStreams ==
    {c \o t \o r : c \in StatusContents, t \in Terms, r \in {<<>>, TxtA \o crnl, crnl}}

InitStatus ==
    /\ FormatIdle
    /\ DoIdle
    /\ conn \in StatusStreams
    /\ buf = <<>>
    /\ pc = "idle"
    /\ code = 0
    /\ data = Single(<<>>)
    /\ err = "nil"
    /\ line = <<>>
    /\ v = <<>>
    /\ got = <<>>

SpecStatus == InitStatus /\ [][Next]_<<vars, fvars, dvars>>

\* No call of receive.
ReceiveIdle ==
    /\ conn = <<>>
    /\ buf = <<>>
    /\ pc = "idle"
    /\ code = 0
    /\ data = Single(<<>>)
    /\ err = "nil"
    /\ line = <<>>
    /\ v = <<>>
    /\ got = <<>>

\* --------------------------------------------------------------------- Do

\* The command of caller c, "A" for the first, "B" for the second, ...,
\* without arguments, as Do hands it to formatCmd.
Command(c) == formatCmd(<<64 + c>>, <<>>)

\* The server's reply to a command line: to "B" the data reply "201 B" and
\* the line "b", to any other name N the one line "202 N".
ReplyTo(l) ==
    IF l[1] = 66
    THEN <<50, 48, 49, SP, l[1]>> \o crnl \o <<l[1] + 32>> \o crnl
    ELSE <<50, 48, 50, SP, l[1]>> \o crnl

\* The complete lines of s, in order.
RECURSIVE SplitLines(_)
SplitLines(s) ==
    IF ~HasLF(s) THEN <<>>
    ELSE <<SubSeq(s, 1, IndexLF(s))>> \o SplitLines(SubSeq(s, IndexLF(s) + 1, Len(s)))

\* What Do returns when send has failed: return 0, "", err.
SendFailed(d) ==
    [pc |-> "returned", id |-> d.id, code |-> 0, data |-> Single(<<>>), err |-> "write error"]

\* Do is entered and send takes its id: id = c.text.Next().
PipelineNext(c) ==
    /\ do[c].pc = "idle"
    /\ do' = [do EXCEPT ![c].pc = "StartRequest", ![c].id = text.next]
    /\ text' = [text EXCEPT !.next = @ + 1]
    /\ UNCHANGED server

\* c.text.StartRequest(id) returns: it is this id's turn to send.
StartRequest(c) ==
    /\ do[c].pc = "StartRequest"
    /\ text.request = do[c].id
    /\ do' = [do EXCEPT ![c].pc = "WriteString"]
    /\ UNCHANGED <<text, server>>

\* c.text.W.WriteString(formatCmd(cmd, args...)): the bufio.Writer takes the
\* line into its buffer, or returns the error an earlier write left in it;
\* then send returns 0, err and Do returns 0, "", err.
WriteString(c) ==
    /\ do[c].pc = "WriteString"
    /\ IF text.Werr
       THEN /\ do' = [do EXCEPT ![c] = SendFailed(@)]
            /\ text' = text
       ELSE /\ do' = [do EXCEPT ![c].pc = "Flush"]
            /\ text' = [text EXCEPT !.W = @ \o Command(c)]
    /\ UNCHANGED server

\* c.text.W.Flush() writes the buffer to the connection.
Flush(c) ==
    /\ do[c].pc = "Flush"
    /\ do' = [do EXCEPT ![c].pc = "EndRequest"]
    /\ text' = [text EXCEPT !.W = <<>>]
    /\ server' = [server EXCEPT !.received = @ \o text.W]

\* c.text.W.Flush() fails (the connection is closed or the deadline passed)
\* after part of the buffer, maybe none of it, went out; the Writer keeps the
\* error; send returns 0, err and Do returns 0, "", err.
FlushFail(c) ==
    /\ do[c].pc = "Flush"
    /\ \E n \in 0..(Len(text.W) - 1) :
        /\ text' = [text EXCEPT !.W = SubSeq(@, n + 1, Len(@)), !.Werr = TRUE]
        /\ server' = [server EXCEPT !.received = @ \o SubSeq(text.W, 1, n)]
    /\ do' = [do EXCEPT ![c] = SendFailed(@)]

\* c.text.EndRequest(id); send returns id.
EndRequest(c) ==
    /\ do[c].pc = "EndRequest"
    /\ text' = [text EXCEPT !.request = @ + 1]
    /\ do' = [do EXCEPT ![c].pc = "StartResponse"]
    /\ UNCHANGED server

\* c.text.StartResponse(id) returns: it is this id's turn to read.
StartResponse(c) ==
    /\ do[c].pc = "StartResponse"
    /\ text.response = do[c].id
    /\ do' = [do EXCEPT ![c].pc = "receive"]
    /\ UNCHANGED <<text, server>>

\* A caller is in c.receive().
Receiving == \E c \in Callers : do[c].pc = "receive"

\* receive has returned; the deferred c.text.EndResponse(id) runs and Do
\* returns what receive returned. The reader of this call and what its
\* buffer holds are gone.
EndResponse(c) ==
    /\ do[c].pc = "receive"
    /\ pc \in {"done", "failed"}
    /\ do' = [do EXCEPT ![c] = [pc |-> "returned", id |-> @.id,
                                code |-> code, data |-> data, err |-> err]]
    /\ text' = [text EXCEPT !.response = @ + 1]
    /\ pc' = "idle"
    /\ UNCHANGED <<conn, buf, code, data, err, line, v, got, server>>

\* The server answers the next command line it has received in full.
Serve ==
    /\ server.answered < Len(SplitLines(server.received))
    /\ conn' = conn \o ReplyTo(SplitLines(server.received)[server.answered + 1])
    /\ server' = [server EXCEPT !.answered = @ + 1]
    /\ UNCHANGED <<buf, pc, code, data, err, line, v, got, do, text>>

InitDo ==
    /\ FormatIdle
    /\ DoIdle
    /\ ReceiveIdle

NextDo ==
    \/ \E c \in Callers : PipelineNext(c) /\ UNCHANGED <<vars, fvars>>
    \/ \E c \in Callers : StartRequest(c) /\ UNCHANGED <<vars, fvars>>
    \/ \E c \in Callers : WriteString(c) /\ UNCHANGED <<vars, fvars>>
    \/ \E c \in Callers : Flush(c) /\ UNCHANGED <<vars, fvars>>
    \/ \E c \in Callers : FlushFail(c) /\ UNCHANGED <<vars, fvars>>
    \/ \E c \in Callers : EndRequest(c) /\ UNCHANGED <<vars, fvars>>
    \/ \E c \in Callers : StartResponse(c) /\ UNCHANGED <<vars, fvars>>
    \/ Receiving /\ pc = "idle" /\ Call /\ UNCHANGED <<fvars, dvars>>
    \/ Receiving /\ Fill /\ UNCHANGED <<fvars, dvars>>
    \/ Receiving /\ ReadFail /\ UNCHANGED <<fvars, dvars>>
    \/ Receiving /\ ReadStatus /\ UNCHANGED <<fvars, dvars>>
    \/ Receiving /\ ReadBody /\ UNCHANGED <<fvars, dvars>>
    \/ \E c \in Callers : EndResponse(c) /\ UNCHANGED fvars
    \/ Serve /\ UNCHANGED fvars

SpecDo == InitDo /\ [][NextDo]_<<vars, fvars, dvars>>

\* ---------------------------------------------------- formatCmd, by itself

InitFormat ==
    /\ ReceiveIdle
    /\ DoIdle
    /\ cmd \in Names
    /\ args \in ArgLists(MaxSize)
    /\ out = <<>>

\* formatCmd(cmd, args...) returns.
Format ==
    /\ out = <<>>
    /\ out' = formatCmd(cmd, args)
    /\ UNCHANGED <<cmd, args>>
    /\ UNCHANGED <<vars, dvars>>

NextFormat == Format

SpecFormat == InitFormat /\ [][NextFormat]_<<vars, fvars, dvars>>

\* ----------------------------------------------------------------- claims

\* What the server sent as one line, as the protocol reads it: the bytes of b
\* before its terminator, CRLF or a bare LF.
EndsCRLF(b) == Len(b) >= 2 /\ SubSeq(b, Len(b) - 1, Len(b)) = crnl
Content(b) == IF EndsCRLF(b) THEN SubSeq(b, 1, Len(b) - 2) ELSE SubSeq(b, 1, Len(b) - 1)

\* The status message of a status line the server sent: its content from
\* byte index 4 on.
Message(b) == SubSeq(Content(b), 5, Len(Content(b)))

\* The contents of the lines got[from..to], in order.
Contents_(from, to) == [i \in 1..(to - from + 1) |-> Content(got[from + i - 1])]

\* C1: whenever receive has returned a reply, the payload is a List exactly
\* when the code is 200 or 201 and a Single text for every other code,
\* whatever bytes follow the reply.
C1_ShapeByCode ==
    pc = "done" =>
        /\ data.kind \in {"Single", "List"}
        /\ data.kind = "List" <=> code \in {200, 201}
        /\ data.kind = "Single" <=> code \notin {200, 201}

\* C1 witness: a reply with another code was returned as a Single while more
\* lines followed it on the stream.
C1_Witness ==
    /\ pc = "done"
    /\ code = 202
    /\ data.kind = "Single"
    /\ HasLF(buf \o conn)

\* C2: a call of receive ends with a reply or with a returned error, never
\* in a third way such as a slice bounds panic.
C2_ReplyOrError == pc \in {"idle", "status", "body", "done", "failed"}

\* C2 failing input: the first line of the stream is a single LF.
C2_Crash == pc = "panic" /\ Len(got) = 1 /\ got[1] = <<LF>>

\* C3: in a code-200 reply receive is Done exactly when the last line it read
\* has empty content, and no line read before that one was empty: reading
\* goes on over non-empty lines and ends at the first empty one.
C3_MultiEndsAtFirstEmptyLine ==
    (code = 200 /\ Len(got) >= 1) =>
        /\ pc = "done" <=> (Len(got) >= 2 /\ Content(got[Len(got)]) = <<>>)
        /\ \A i \in 2..(Len(got) - 1) : Content(got[i]) # <<>>

\* C4: the List of a code-200 reply is the status message and the contents
\* of the lines before the empty terminator line; the terminator adds nothing.
C4_TerminatorDiscarded ==
    (pc = "done" /\ code = 200) =>
        data = List(<<v[1]>> \o Contents_(2, Len(got) - 1))

\* C5: in a code-201 reply every line read is appended, receive is Done
\* exactly when the last line it read ends with CRLF, and no line read before
\* that one ended with CRLF: bare-LF lines of any length are accumulated.
C5_DataEndsAtFirstCRLF ==
    (code = 201 /\ Len(got) >= 1) =>
        /\ pc = "done" <=> (Len(got) >= 2 /\ EndsCRLF(got[Len(got)]))
        /\ \A i \in 2..(Len(got) - 1) : ~EndsCRLF(got[i])
        /\ v = <<v[1]>> \o Contents_(2, Len(got))

\* C6: the List of a 200 or 201 reply is the status message followed by the
\* contents of the body lines in the order received (for 200 the body is
\* what precedes the empty terminator line, for 201 every line read).
C6_ListIsMessageThenBodyInOrder ==
    (pc = "done" /\ code \in {200, 201}) =>
        data = List(<<Message(got[1])>>
                      \o Contents_(2, IF code = 200 THEN Len(got) - 1 ELSE Len(got)))

C8_ReadErrorReturnsNoData ==
    [][(pc' = "failed" /\ err' = "read error") =>
          /\ code' = 0
          /\ data' = Single(<<>>)
          /\ conn' = conn
          /\ buf' = buf]_vars

\* C8 witness: a read failed after body lines had been accumulated.
C8_Witness ==
    /\ pc = "failed"
    /\ err = "read error"
    /\ Len(v) >= 3
    /\ Len(got) >= 3

\* The bytes after the lines this call was given begin with a complete,
\* well-formed, CRLF-terminated status line: a following reply.
FollowingReply ==
    LET rest == buf \o conn
    IN  /\ HasLF(rest)
        /\ EndsCRLF(SubSeq(rest, 1, IndexLF(rest)))
        /\ parseCodeLine(Content(SubSeq(rest, 1, IndexLF(rest)))).err = "nil"

\* C9: when receive returns a reply and a following reply comes after it,
\* no byte of the following reply has left the connection: the reader of
\* the call that returned holds none of them.
C9_NoReadAhead == (pc = "done" /\ FollowingReply) => buf = <<>>

\* C10: a well-formed status line (judged on its content, terminator
\* excluded) with a code other than 200 and 201 ends the call at once with
\* that code and Single(message), message being the content from index 4 on.
C10_SingleIsWholeMessage ==
    Len(got) >= 1 =>
        LET p == parseCodeLine(Content(got[1]))
        IN  (p.err = "nil" /\ p.code \notin {200, 201}) =>
                /\ pc = "done"
                /\ Len(got) = 1
                /\ code = p.code
                /\ data = Single(Message(got[1]))

\* The content of a status line is malformed: shorter than 4 bytes, or its
\* 4th byte is no space, or its first 3 bytes are not three decimal digits of
\* a number that is at least 100.
MalformedStatus(c) ==
    \/ Len(c) < 4
    \/ c[4] # SP
    \/ \E i \in 1..3 : c[i] \notin 48..57
    \/ DecVal(SubSeq(c, 1, 3)) < 100

\* C11: once receive has read a first line whose content is malformed it has
\* failed with a malformed-response error, without a code or a payload and
\* without reading another line; and every code returned with a reply lies in
\* 100..999.
C11_MalformedRejected ==
    /\ (Len(got) >= 1 /\ MalformedStatus(Content(got[1]))) =>
          /\ pc = "failed"
          /\ err \in {"short response", "invalid response"}
          /\ code = 0
          /\ data = Single(<<>>)
          /\ Len(got) = 1
    /\ pc = "done" => code \in 100..999

\* C11: a first line with empty content before a bare LF was read, and receive
\* ended in the panic instead of the error.
C11_EmptyStatusCrash ==
    /\ pc = "panic"
    /\ got = <<<<LF>>>>
    /\ MalformedStatus(Content(got[1]))
    /\ err = "nil"

\* ------------------------------------------------- claims about formatCmd

\* formatCmd has returned.
Formatted == out # <<>>

\* The wire line read back, without the encoder: what follows the name, up
\* to the closing CRLF, cut into the tokens that single spaces introduce. A
\* token that begins with a quote runs to the next quote no backslash
\* precedes; any other token runs to the next space.
WireBody == SubSeq(out, Len(cmd) + 1, Len(out) - 2)

RECURSIVE ClosingQuote(_, _)
ClosingQuote(t, i) ==
    IF i > Len(t) THEN Len(t) + 1
    ELSE IF t[i] = 92 THEN ClosingQuote(t, i + 2)
    ELSE IF t[i] = 34 THEN i
    ELSE ClosingQuote(t, i + 1)

NextSpace(t) ==
    IF \E i \in 1..Len(t) : t[i] = SP
    THEN CHOOSE i \in 1..Len(t) : t[i] = SP /\ \A j \in 1..(i - 1) : t[j] # SP
    ELSE Len(t) + 1

RECURSIVE Tokens(_)
Tokens(r) ==
    IF r = <<>> THEN <<>>
    ELSE IF r[1] # SP THEN <<[quoted |-> FALSE, body |-> r, bad |-> TRUE]>>
    ELSE LET t == Tail(r)
         IN  IF t # <<>> /\ t[1] = 34
             THEN LET e == ClosingQuote(t, 2)
                  IN  <<[quoted |-> TRUE, body |-> SubSeq(t, 2, e - 1), bad |-> e > Len(t)]>>
                          \o Tokens(SubSeq(t, e + 1, Len(t)))
             ELSE LET e == NextSpace(t)
                  IN  <<[quoted |-> FALSE, body |-> SubSeq(t, 1, e - 1), bad |-> FALSE]>>
                          \o Tokens(SubSeq(t, e, Len(t)))

\* tok is n in base 10: a '-' first only when n is negative, then digits
\* without a leading zero.
CanonicalDecimal(tok, n) ==
    LET d == IF n < 0 THEN Tail(tok) ELSE tok
    IN  /\ Len(tok) >= 1
        /\ n < 0 => tok[1] = 45
        /\ Len(d) >= 1
        /\ \A i \in 1..Len(d) : d[i] \in 48..57
        /\ Len(d) > 1 => d[1] # 48
        /\ DecVal(d) = (IF n < 0 THEN 0 - n ELSE n)

\* C12: for arguments that are ints and texts the line is the name, then per
\* argument, in order, one space and one token, then CR LF as its last two
\* bytes; an int's token is its canonical decimal form; with no argument the
\* line is the name and CR LF.
C12_NameSpaceTokensCRLF ==
    (Formatted /\ \A i \in 1..Len(args) : args[i].kind \in {"int", "string"}) =>
        LET toks == Tokens(WireBody)
        IN  /\ Len(out) >= Len(cmd) + 2
            /\ SubSeq(out, 1, Len(cmd)) = cmd
            /\ SubSeq(out, Len(out) - 1, Len(out)) = crnl
            /\ Len(toks) = Len(args)
            /\ \A i \in 1..Len(toks) : ~toks[i].bad
            /\ \A i \in 1..Len(args) :
                  args[i].kind = "int" =>
                      ~toks[i].quoted /\ CanonicalDecimal(toks[i].body, args[i].n)
            /\ args = <<>> => out = cmd \o crnl

\* C12 witness: a negative int and a text were formatted.
C12_Witness ==
    /\ Formatted
    /\ args = <<IntArg(0 - 12), StringArg(<<110>>)>>
    /\ out = <<88, 32, 45, 49, 50, 32, 110, 13, 10>>

\* The arguments are all of types the switch has a case for.
AllIntOrString == \A i \in 1..Len(args) : args[i].kind \in {"int", "string"}

\* The string t holds a whitespace character: an ASCII one, or U+0085 or
\* U+00A0 in UTF-8.
WhitespaceIn(t) ==
    \E i \in 1..Len(t) :
        \/ t[i] \in {9, 10, 11, 12, 13, 32}
        \/ t[i] = 194 /\ i < Len(t) /\ t[i + 1] \in {133, 160}

\* C13: a text argument's token is wrapped in double quotes exactly when the
\* text holds a whitespace character, whatever else it holds; the empty text
\* is not quoted.
C13_QuotedIffWhitespace ==
    (Formatted /\ AllIntOrString) =>
        LET toks == Tokens(WireBody)
        IN  /\ Len(toks) = Len(args)
            /\ \A i \in 1..Len(args) :
                  args[i].kind = "string" =>
                      /\ ~toks[i].bad
                      /\ toks[i].quoted <=> WhitespaceIn(args[i].s)
                      /\ args[i].s = <<>> => toks[i] = [quoted |-> FALSE, body |-> <<>>, bad |-> FALSE]

\* C13 witness: a double quote alone went out unquoted, a carriage return
\* alone went out quoted.
C13_Witness ==
    /\ Formatted
    /\ args = <<StringArg(<<34>>), StringArg(<<CR>>)>>
    /\ out = cmd \o <<SP, 92, 34, SP, 34, CR, 34>> \o crnl

\* What the escaping pass is to write for one byte of a text.
Escaped(b) ==
    CASE b = 34 -> <<92, 34>>
      [] b = 92 -> <<92, 92>>
      [] b = LF -> <<92, 110>>
      [] OTHER -> <<b>>

\* C14: between its quotes, if it has any, the token of a text argument is the
\* text with each double quote, backslash and newline replaced by its escape,
\* once, left to right, and everything else copied as it is.
C14_EscapedInOnePass ==
    (Formatted /\ AllIntOrString) =>
        LET toks == Tokens(WireBody)
        IN  /\ Len(toks) = Len(args)
            /\ \A i \in 1..Len(args) :
                  args[i].kind = "string" =>
                      toks[i].body = Flatten([j \in 1..Len(args[i].s) |-> Escaped(args[i].s[j])])

\* C14: the byte 0xFF went out as the three bytes of U+FFFD.
C14_Replaced ==
    /\ Formatted
    /\ args = <<StringArg(<<255>>)>>
    /\ out = cmd \o <<SP, 239, 191, 189>> \o crnl

\* C15: an argument of a type the encoder has no form for never yields a wire
\* line.
C15_UnsupportedIsError ==
    Formatted => AllIntOrString

\* C15: the unsupported argument became an empty token after its space.
C15_EmptyToken ==
    /\ Formatted
    /\ args = <<OtherArg>>
    /\ out = cmd \o <<SP>> \o crnl

\* C18: for int and text arguments the line holds exactly one line feed, its
\* last byte.
C18_OneLineFeedLast ==
    (Formatted /\ AllIntOrString) =>
        /\ out[Len(out)] = LF
        /\ Cardinality({i \in 1..Len(out) : out[i] = LF}) = 1

\* C18 witness: a text of a carriage return and a newline was formatted.
C18_Witness ==
    /\ Formatted
    /\ args = <<StringArg(<<CR, LF>>)>>
    /\ out = cmd \o <<SP, 34, CR, 92, 110, 34>> \o crnl

\* The lists of text arguments.
TextLists == {as \in ArgLists(MaxSize) : \A i \in 1..Len(as) : as[i].kind = "string"}

\* C19: no other list of texts gives the line this list of texts gave.
C19_Injective ==
    (Formatted /\ args \in TextLists) =>
        \A bs \in TextLists : bs # args => formatCmd(cmd, bs) # out

\* C19: the line of the text 0xFF is the line of the text 0xA0.
C19_Collision ==
    /\ Formatted
    /\ args = <<StringArg(<<255>>)>>
    /\ out = formatCmd(cmd, <<StringArg(<<160>>)>>)

\* ------------------------------------------------------- claims about Do

\* The caller that took request id i.
CallerOf(i) == CHOOSE c \in Callers : do[c].pc # "idle" /\ do[c].id = i

\* What the server's reply to the command of caller c amounts to.
Awaited(c) ==
    IF 64 + c = 66
    THEN [code |-> 201, data |-> List(<<<<66>>, <<98>>>>)]
    ELSE [code |-> 202, data |-> Single(<<64 + c>>)]

\* No send has failed so far.
NoSendFailed == ~text.Werr /\ \A c \in Callers : do[c].err # "write error"

\* No Do has returned an error so far.
NoDoFailed == NoSendFailed /\ \A c \in Callers : do[c].err = "nil"

\* C16: with several callers in Do at once, what the server has received is
\* whole command lines in request-id order; a Do that returns a reply returns
\* the reply to its own command; and no reply is lost: between two calls of
\* receive the connection still holds, in order, the reply to every command
\* answered whose Do has not returned yet.
C16_OwnReplyInOrder ==
    /\ NoSendFailed =>
          \E n \in 0..text.next :
              server.received = Flatten([i \in 1..n |-> Command(CallerOf(i - 1))])
    /\ \A c \in Callers :
          (do[c].pc = "returned" /\ do[c].err = "nil") =>
              do[c].code = Awaited(c).code /\ do[c].data = Awaited(c).data
    /\ (NoDoFailed /\ pc = "idle") =>
          conn = Flatten([i \in 1..(server.answered - text.response) |->
                             ReplyTo(Command(CallerOf(text.response + i - 1)))])

\* C16: a Do has returned, as its own, the reply to a later caller's command.
C16_HandedOver ==
    /\ NoSendFailed
    /\ text.next = 3
    /\ \E c \in Callers :
          /\ do[c].pc = "returned"
          /\ do[c].id = 1
          /\ do[c].err = "nil"
          /\ do[c].data = Awaited(CallerOf(2)).data

\* C17: as long as a caller has not returned from Do a step can be taken: no
\* caller waits for a turn that never comes.
C17_EveryDoReturns ==
    (\A c \in Callers : do[c].pc = "returned") \/ ENABLED NextDo

\* C17: a send has failed and a later caller waits in StartRequest for a
\* turn nothing can give it.
C17_Blocked ==
    /\ \E c \in Callers : do[c].pc = "returned" /\ do[c].err = "write error"
    /\ \E c \in Callers : do[c].pc = "StartRequest" /\ text.request < do[c].id
    /\ ~ENABLED NextDo

=============================================================================
